---- MODULE Spec2Model ----
(***************************************************************************)
(* rear_view "superpowers": a TCP-only DNS forwarder that rewrites PTR      *)
(* answers.  The module models                                              *)
(*   - the scope database (superpowers/nets.py): Scope, Node, Nets;         *)
(*   - the Powers object built per request (superpowers/__init__.py);       *)
(*   - the per-datagram task SuperUDPListener.handle_request                *)
(*     (superpowers.py), cut into one action per await point;               *)
(*   - the shodohflo power (superpowers/shodohflo.py): the Associations     *)
(*     cache with its two expiry lists, the task that fills and refreshes   *)
(*     it, and the choice Superpower.query makes among the chains.          *)
(*                                                                          *)
(* Conventions.  Python None is the empty tuple and a non-None value x is   *)
(* the one-element tuple <<x>>.  Python strings are tuples of character     *)
(* codes, bytes objects are tuples of byte values.  A Python int that       *)
(* holds an IPv4 address is a tuple of four base-256 limbs, most            *)
(* significant first, so that the 32-bit masks of Nets.find are computed    *)
(* bit for bit.                                                             *)
(***************************************************************************)
EXTENDS Integers, Sequences, FiniteSets, TLC

VARIABLES
    yaml,        \* the parsed configuration file: the list config['subnets']
    config,      \* SuperUDPListener.config: None until the first datagram
    nets_,       \* Config.nets_: None until the first PTR request
    tasks,       \* Superpower.tasks of each power: the list of init tasks
    init_cache,  \* state of the shodohflo init_cache task
    req,         \* one record per handle_request task
    found,       \* the last call of Nets.find made from the interactive prompt
    now,         \* time.time()
    associations,\* shodohflo Superpower.associations: index, expiry, new_expiry
    superpower,  \* the shodohflo Superpower: its parameters and its task
    asked        \* the last call of shodohflo Superpower.query

\* the variables of the shodohflo power
cacheVars == <<now, associations, superpower, asked>>

vars == <<yaml, config, nets_, tasks, init_cache, req, found, cacheVars>>

-----------------------------------------------------------------------------
(* Python values *)

None == <<>>
Some(x) == <<x>>
Value(o) == o[1]

\* Character codes of the strings the model uses.
Dot == 46
ChH == 104
ChN == 110
ChU == 117

\* str.endswith('.')
EndsWithDot(s) == Len(s) > 0 /\ s[Len(s)] = Dot

\* str.strip('.'): leading and trailing dots removed
RECURSIVE LStripDots(_)
LStripDots(s) == IF Len(s) > 0 /\ s[1] = Dot THEN LStripDots(Tail(s)) ELSE s

RECURSIVE RStripDots(_)
RStripDots(s) ==
    IF EndsWithDot(s) THEN RStripDots(SubSeq(s, 1, Len(s) - 1)) ELSE s

StripDots(s) == RStripDots(LStripDots(s))

-----------------------------------------------------------------------------
(* 32-bit integers as four base-256 limbs *)

\* bit b of x
Bit(x, b) == (x \div 2^b) % 2

\* x & y on the bits 0..n-1
RECURSIVE BitAnd(_, _, _)
BitAnd(x, y, n) ==
    IF n = 0 THEN 0
    ELSE Bit(x, n - 1) * Bit(y, n - 1) * 2^(n - 1) + BitAnd(x, y, n - 1)

\* x ^ y on the bits 0..n-1
RECURSIVE BitXor(_, _, _)
BitXor(x, y, n) ==
    IF n = 0 THEN 0
    ELSE ((Bit(x, n - 1) + Bit(y, n - 1)) % 2) * 2^(n - 1) + BitXor(x, y, n - 1)

IntXor(a, b) ==
    <<BitXor(a[1], b[1], 8), BitXor(a[2], b[2], 8),
      BitXor(a[3], b[3], 8), BitXor(a[4], b[4], 8)>>

\* the number of the low i bits that fall into limb k
LowBits(i, k) ==
    LET n == i - 8 * (4 - k)
    IN  IF n < 0 THEN 0 ELSE IF n > 8 THEN 8 ELSE n

\* 2**i - 1
Pow2Minus1(i) ==
    <<2^LowBits(i, 1) - 1, 2^LowBits(i, 2) - 1,
      2^LowBits(i, 3) - 1, 2^LowBits(i, 4) - 1>>

\* all_bits = 2**32 - 1
all_bits == <<255, 255, 255, 255>>

-----------------------------------------------------------------------------
(* superpowers/nets.py *)

Modes == {"first", "last", "always", "never"}

\* class Scope
Scope(powers, scope, mode, fqdn) ==
    [powers |-> powers, scope |-> scope, mode |-> mode, fqdn |-> fqdn]

\* sorted(scopes, key=lambda x: x.scope, reverse=True): a stable insertion sort
RECURSIVE InsertDesc(_, _)
InsertDesc(sorted, x) ==
    IF sorted = <<>> THEN <<x>>
    ELSE IF sorted[1].scope >= x.scope
         THEN <<sorted[1]>> \o InsertDesc(Tail(sorted), x)
         ELSE <<x>> \o sorted

RECURSIVE SortDesc(_)
SortDesc(scopes) ==
    IF scopes = <<>> THEN <<>>
    ELSE InsertDesc(SortDesc(SubSeq(scopes, 1, Len(scopes) - 1)),
                    scopes[Len(scopes)])

\* Node.__init__
Node(address, scopes) == [address |-> address, scopes |-> SortDesc(scopes)]

\* Node.new: subnet['net'] is an ip_network, a network address and a prefix
NodeNew(powers, subnet) ==
    Node(subnet.net.network_address,
         <<Scope(powers, subnet.net.prefixlen, subnet.mode, subnet.fqdn)>>)

\* Node.add_scope without the loop that replaces a Scope of the same scope
add_scope_Append(node, scope) ==
    [node EXCEPT !.scopes = SortDesc(Append(node.scopes, scope))]

\* Node.add_scope
add_scope(node, scope) ==
    IF \E i \in 1..Len(node.scopes) : node.scopes[i].scope = scope.scope
    THEN LET i == CHOOSE j \in 1..Len(node.scopes) :
                      /\ node.scopes[j].scope = scope.scope
                      /\ \A k \in 1..(j - 1) : node.scopes[k].scope # scope.scope
         IN  [node EXCEPT !.scopes[i] = scope]
    ELSE [node EXCEPT !.scopes = SortDesc(Append(node.scopes, scope))]

\* Node.get_scope
RECURSIVE get_scope_from(_, _, _)
get_scope_from(scopes, bits, i) ==
    IF i > Len(scopes) THEN None
    ELSE IF scopes[i].scope <= bits THEN Some(scopes[i])
         ELSE get_scope_from(scopes, bits, i + 1)

get_scope(node, bits) == get_scope_from(node.scopes, bits, 1)

\* Nets.__init__: the flattened list of (powers, subnet) in configuration order
RECURSIVE Flatten(_)
Flatten(subnets) ==
    IF subnets = <<>> THEN <<>>
    ELSE [i \in 1..Len(subnets[1].nets) |->
             [powers |-> subnets[1].powers, subnet |-> subnets[1].nets[i]]]
         \o Flatten(Tail(subnets))

RECURSIVE NetsFold(_, _)
NetsFold(nets, entries) ==
    IF entries = <<>> THEN nets
    ELSE LET node == NodeNew(entries[1].powers, entries[1].subnet)
             next == IF node.address \in DOMAIN nets
                     THEN [nets EXCEPT ![node.address] =
                              add_scope(nets[node.address], node.scopes[1])]
                     ELSE [a \in DOMAIN nets \cup {node.address} |->
                              IF a = node.address THEN node ELSE nets[a]]
         IN  NetsFold(next, Tail(entries))

Nets(subnets) == NetsFold([a \in {} |-> None], Flatten(subnets))

\* range(32) in Nets.find
FindRange == 32

\* the width of an IPv4 address in "32-i"
AddressBits == 32

\* all_bits ^ (2**i - 1), for each i of the loop
Masks == [i \in 0..AddressBits |-> IntXor(all_bits, Pow2Minus1(i))]

\* x & m for every byte x and every limb m of a mask, computed once
MaskedByte ==
    [x \in 0..255 |->
        [m \in {Masks[i][k] : i \in 0..AddressBits, k \in 1..4} |-> BitAnd(x, m, 8)]]

\* address & Masks[i]
Masked(address, i) ==
    <<MaskedByte[address[1]][Masks[i][1]], MaskedByte[address[2]][Masks[i][2]],
      MaskedByte[address[3]][Masks[i][3]], MaskedByte[address[4]][Masks[i][4]]>>

\* Nets.find: the body of the loop at i, None when it continues
find_at(nets, address, i) ==
    LET effective_address == Masked(address, i)
    IN  IF effective_address \notin DOMAIN nets THEN None
        ELSE get_scope(nets[effective_address], AddressBits - i)

\* Nets.find: the first i of range(32) at which the loop returns a scope
find(nets, address) ==
    LET returns == {i \in 0..(FindRange - 1) : find_at(nets, address, i) # None}
    IN  IF returns = {} THEN None
        ELSE find_at(nets, address,
                     CHOOSE i \in returns : \A j \in returns : i <= j)

-----------------------------------------------------------------------------
(* superpowers/__init__.py *)

\* RECOGNIZED_POWERS
RECOGNIZED_POWERS == {"sqlite", "shodohflo"}

\* PTR = 12
PTR == 12

\* dns.message.from_wire(request): a request datagram either fails to parse
\* or gives a question with an rdtype and a name.  The name of a reverse
\* query d.c.b.a.in-addr.arpa. is held as its four octet labels <<d,c,b,a>>.
ParseRequest(request) ==
    IF request.wire_ok
    THEN Some([rdtype |-> request.rdtype, name |-> request.name])
    ELSE None

\* reversed(name.to_text().replace('.in-addr.arpa.','').split('.')), joined
\* and handed to ipaddress.ip_address: the four limbs of a.b.c.d
AddressOf(name) == <<name[4], name[3], name[2], name[1]>>

\* Config.load_powers: the powers named by any subnet block are instantiated
\* once each, in configuration order
RECURSIVE LoadedPowers(_)
LoadedPowers(subnets) ==
    IF subnets = <<>> THEN {}
    ELSE (IF subnets[1].powers = None THEN {}
          ELSE {Value(subnets[1].powers)[i] :
                    i \in 1..Len(Value(subnets[1].powers))})
         \cup LoadedPowers(Tail(subnets))

\* Superpower.__init__ of each loaded power: shodohflo posts its init_cache
\* task in self.tasks, sqlite posts nothing
TasksAfterLoad(subnets) ==
    [pw \in RECOGNIZED_POWERS |->
        IF pw = "shodohflo" /\ pw \in LoadedPowers(subnets)
        THEN <<"init_cache">> ELSE <<>>]

\* Powers.__init__ after the request has parsed
PowersInit(nets, query) ==
    IF query.rdtype # PTR
    THEN [address |-> None, scope |-> None, powers |-> None,
          ready |-> FALSE, response |-> <<>>]
    ELSE LET address == AddressOf(query.name)
             scope == find(nets, address)
             \* self.scope is not None and self.scope.powers or None
             powers == IF scope # None
                          /\ Value(scope).powers # None
                          /\ Value(Value(scope).powers) # <<>>
                       THEN Value(scope).powers
                       ELSE None
         IN  [address |-> Some(address), scope |-> scope, powers |-> powers,
              ready |-> (powers = None), response |-> <<>>]

\* Powers.__call__
Called(p) == p.powers # None

\* Powers.mode
ModeOf(p) == Value(p.scope).mode

\* Powers.fqdn
FqdnOf(p) ==
    LET fqdn == Value(p.scope).fqdn
    IN  IF fqdn # <<>> /\ EndsWithDot(fqdn) THEN fqdn ELSE fqdn \o <<Dot>>

\* Powers.exec: results[i] is what the i-th power's query returns for the
\* address (or that it raises).  The value is the outcome, the response and
\* the list of the queries made.
RECURSIVE exec_from(_, _, _, _)
exec_from(powers, results, i, queried) ==
    IF i > Len(powers)
    THEN [ret |-> "miss", response |-> <<>>, queried |-> queried]
    ELSE IF results[i].raises
         THEN [ret |-> "raise", response |-> <<>>,
               queried |-> Append(queried,
                              [e |-> "query", power |-> powers[i],
                               result |-> "raise"])]
         ELSE LET response == results[i].value
              IN  IF response # <<>>
                  THEN [ret |-> "hit",
                        response |-> IF EndsWithDot(response) THEN response
                                     ELSE response \o <<Dot>>,
                        queried |-> Append(queried,
                                       [e |-> "query", power |-> powers[i],
                                        result |-> "hit"])]
                  ELSE exec_from(powers, results, i + 1,
                                 Append(queried,
                                    [e |-> "query", power |-> powers[i],
                                     result |-> "empty"]))

\* faulty variant: the loop of exec goes on to the next power after a hit
exec_NoStop(powers, results) ==
    LET e == exec_from(powers, results, 1, <<>>)
    IN  IF e.ret = "hit" /\ Len(e.queried) < Len(powers)
        THEN [e EXCEPT !.queried =
                 Append(@, [e |-> "query", power |-> powers[Len(e.queried) + 1],
                            result |-> "empty"])]
        ELSE e

exec(powers, results) == exec_from(powers, results, 1, <<>>)

-----------------------------------------------------------------------------
(* superpowers.py: the DNS messages handle_request reads and builds *)

NOERROR == 0
NXDOMAIN == 3

\* A DNS message on the wire: the rcode, the number of answer bytes, the
\* answer.  dns.message.from_wire raises (None here) on a message shorter
\* than its header or whose length disagrees with its counts.
to_wire(m) == <<m.rcode, Len(m.answer)>> \o m.answer

from_wire(w) ==
    IF Len(w) >= 2 /\ Len(w) = 2 + w[2]
    THEN Some([rcode |-> w[1], answer |-> SubSeq(w, 3, Len(w))])
    ELSE None

\* len(x).to_bytes(2, byteorder='big') + x
Frame(w) == <<Len(w) \div 256, Len(w) % 256>> \o w

\* int.from_bytes(data, byteorder='big') of at most two bytes
from_bytes(data) ==
    IF Len(data) = 0 THEN 0
    ELSE IF Len(data) = 1 THEN data[1]
    ELSE 256 * data[1] + data[2]

\* make_response(powers.query, recursion_available=True) with one PTR answer
PtrResponse(name) == to_wire([rcode |-> NOERROR, answer |-> name])

\* make_response(...) followed by set_rcode(dns.rcode.NXDOMAIN)
NxdomainResponse == to_wire([rcode |-> NXDOMAIN, answer |-> <<>>])

-----------------------------------------------------------------------------
(* superpowers.py: the conditions of SuperUDPListener.handle_request *)

\* faulty variant: every mode but 'last' runs the powers first
PowersFirst_NotLast(p) == Called(p) /\ ModeOf(p) # "last"

\* faulty variant: 'first' is left out of the modes that run the powers first
PowersFirst_AlwaysOnly(p) == Called(p) /\ ModeOf(p) = "always"

\* if powers() and powers.mode in ('first', 'always')
PowersFirst(p) == Called(p) /\ ModeOf(p) \in {"first", "always"}

\* if not powers() or powers.mode != 'always'
NeedsUpstream(p) == ~Called(p) \/ ModeOf(p) # "always"

\* faulty variant: the test of the upstream rcode is left out
RelayUpstream_NoRcode(p, rcode) == ~Called(p) \/ ModeOf(p) = "never"

\* faulty variant: the test of mode 'never' is left out
RelayUpstream_NoNever(p, rcode) == rcode = 0 \/ ~Called(p)

\* if dns_response.rcode() == 0 or not powers() or powers.mode == 'never'
RelayUpstream(p, rcode) ==
    rcode = 0 \/ ~Called(p) \/ ModeOf(p) = "never"

\* if powers() and powers.mode == 'last'
PowersLast(p) == Called(p) /\ ModeOf(p) = "last"

\* faulty variant: powers.fqdn is tested without strip('.')
UseFallback_NoStrip(p) == Called(p) /\ FqdnOf(p) # <<>>

\* if powers() and powers.fqdn.strip('.')
UseFallback(p) == Called(p) /\ StripDots(FqdnOf(p)) # <<>>

-----------------------------------------------------------------------------
(* superpowers.py: handle_request from one await to the next *)

ConnectEvent == [e |-> "connect", power |-> "", result |-> ""]
ExchangedEvent == [e |-> "exchanged", power |-> "", result |-> ""]

\* the task ends: the locals of the coroutine and its connection are gone
Ended(q) ==
    [q EXCEPT !.phase = "", !.k = 0, !.waiting = <<>>, !.stream = <<>>,
              !.response_length = 0, !.response = <<>>]

\* self.transport.sendto(wire, addr); return
Send(q, wire, by) ==
    [Ended(q) EXCEPT !.pc = "done", !.sent = Some([wire |-> wire, by |-> by])]

\* an exception leaves handle_request: the task ends, nothing is sent
Raised(q, by) == [Ended(q) EXCEPT !.pc = "failed", !.raised = by]

\* the fallback value, then NXDOMAIN
Fallback(q) ==
    IF UseFallback(q.powers)
    THEN Send(q, PtrResponse(FqdnOf(q.powers)), "fallback")
    ELSE Send(q, NxdomainResponse, "nxdomain")

\* faulty variant: marshall waits for no task
NextPending_None(powers, tk, k) == 0

\* Powers.marshall: the first power at or after index k with pending tasks
RECURSIVE NextPending(_, _, _)
NextPending(powers, tk, k) ==
    IF k > Len(powers) THEN 0
    ELSE IF tk[powers[k]] # <<>> THEN k
         ELSE NextPending(powers, tk, k + 1)

RECURSIVE RunPowers(_, _, _, _)

\* the mode 'last' block
ApplyLast(q, res, tk) ==
    IF PowersLast(q.powers)
    THEN RunPowers([q EXCEPT !.phase = "last"], res, tk, 1)
    ELSE Fallback(q)

\* the upstream block: open_connection is called and awaited
Forward(q, res, tk) ==
    IF NeedsUpstream(q.powers)
    THEN [q EXCEPT !.pc = "connect", !.log = Append(q.log, ConnectEvent)]
    ELSE ApplyLast(q, res, tk)

\* "if not powers.ready: await powers.marshall()" with marshall's loop at
\* index k, then "if powers.exec():"
RunPowers(q, res, tk, k) ==
    LET powers == Value(q.powers.powers)
        j == IF q.powers.ready THEN 0 ELSE NextPending(powers, tk, k)
    IN  IF j # 0
        THEN [q EXCEPT !.pc = "marshall", !.k = j, !.waiting = tk[powers[j]]]
        ELSE LET e == exec(powers, res)
                 q1 == [q EXCEPT !.powers.ready = TRUE,
                                 !.powers.response = e.response,
                                 !.log = q.log \o e.queried]
             IN  CASE e.ret = "hit" -> Send(q1, PtrResponse(e.response), "power")
                   [] e.ret = "raise" -> Raised(q1, "query")
                   [] OTHER -> IF q.phase = "first" THEN Forward(q1, res, tk)
                               ELSE Fallback(q1)

\* the mode 'first' / 'always' block
ApplyFirst(q, res, tk) ==
    IF PowersFirst(q.powers)
    THEN RunPowers([q EXCEPT !.phase = "first"], res, tk, 1)
    ELSE Forward(q, res, tk)

\* writer.close() and what follows the read loop
AfterExchange(q, res, tk) ==
    LET dns_response == from_wire(q.response)
    IN  IF dns_response = None THEN Raised(q, "from_wire")
        ELSE LET q1 == [q EXCEPT !.rcode = Some(Value(dns_response).rcode),
                                 !.log = Append(q.log, ExchangedEvent)]
             IN  IF RelayUpstream(q.powers, Value(dns_response).rcode)
                 THEN Send(q1, q.response, "upstream")
                 ELSE ApplyLast(q1, res, tk)

-----------------------------------------------------------------------------
(* superpowers/shodohflo.py: Association and Associations *)

\* MAX_ASSOCS = 5000 in the source; the value here is scaled down to the
\* size of the caches explored
MAX_ASSOCS == 2

\* str.lower() of one character and of a string
LowerChar(c) == IF c >= 65 /\ c <= 90 THEN c + 32 ELSE c
Lower(s) == [i \in 1..Len(s) |-> LowerChar(s[i])]

\* Association.expiry: time() + self.ttl * (0.95 + 0.1 * random()); the
\* random part is r ticks
expiry(time, ttl, r) == time + ttl + r

\* Association.__init__
Association(fqdns, ttl, time, r) ==
    [fqdns |-> fqdns, ttl |-> ttl,
     expires |-> expiry(time, ttl, r), orig_expires |-> expiry(time, ttl, r)]

\* Association.update
update(association, fqdns, time, r) ==
    [association EXCEPT !.fqdns = fqdns,
                        !.expires = expiry(time, association.ttl, r)]

\* Association.moving
moving(association) ==
    [association EXCEPT !.orig_expires = association.expires]

\* Association.updated
updated(association) == association.expires # association.orig_expires

\* Associations.__init__: the two lists hold the targets of the Association
\* objects that index also references
NoAssociations ==
    [index |-> [t \in {} |-> <<>>], expiry |-> <<>>, new_expiry |-> <<>>]

\* del self.index[target]
Without(index, target) == [t \in DOMAIN index \ {target} |-> index[t]]

\* self.index[target] = association
With(index, target, association) ==
    [t \in DOMAIN index \cup {target} |->
        IF t = target THEN association ELSE index[t]]

\* Associations.remove_one
remove_one(a) ==
    LET item == Head(a.expiry)
    IN  IF updated(a.index[item])
        THEN [a EXCEPT !.expiry = Tail(a.expiry),
                       !.new_expiry = Append(a.new_expiry, item)]
        ELSE [a EXCEPT !.expiry = Tail(a.expiry),
                       !.index = Without(a.index, item)]

\* sorted(self.new_expiry, key=lambda x:x.orig_expires), a stable sort
RECURSIVE InsertByExpiry(_, _, _)
InsertByExpiry(index, sorted, item) ==
    IF sorted = <<>> THEN <<item>>
    ELSE IF index[item].orig_expires < index[Head(sorted)].orig_expires
         THEN <<item>> \o sorted
         ELSE <<Head(sorted)>> \o InsertByExpiry(index, Tail(sorted), item)

RECURSIVE SortByExpiry(_, _)
SortByExpiry(index, items) ==
    IF items = <<>> THEN <<>>
    ELSE InsertByExpiry(index,
                        SortByExpiry(index, SubSeq(items, 1, Len(items) - 1)),
                        items[Len(items)])

\* Associations.rotate_lists
rotate_lists(a) ==
    LET moved == {a.new_expiry[i] : i \in 1..Len(a.new_expiry)}
        index == [t \in DOMAIN a.index |->
                     IF t \in moved THEN moving(a.index[t]) ELSE a.index[t]]
    IN  [index |-> index, expiry |-> SortByExpiry(index, a.new_expiry),
         new_expiry |-> <<>>]

\* Associations.purge: the while loop; the cache after remove_one and after
\* rotate_lists is bound as a value, a1 and a2
RECURSIVE purge_loop(_, _)

\* faulty variant: the loop goes on only while the index holds more than
\* MAX_ASSOCS associations
purge_loop_OverflowOnly(a, time) ==
    IF Cardinality(DOMAIN a.index) > MAX_ASSOCS
    THEN CHOOSE result \in
             {IF a1.expiry = <<>>
              THEN IF DOMAIN a1.index = {} THEN a1
                   ELSE CHOOSE rotated \in {purge_loop(a2, time) :
                                               a2 \in {rotate_lists(a1)}} : TRUE
              ELSE purge_loop(a1, time) : a1 \in {remove_one(a)}} : TRUE
    ELSE a

purge_loop(a, time) ==
    IF \/ a.index[a.expiry[1]].orig_expires <= time
       \/ Cardinality(DOMAIN a.index) > MAX_ASSOCS
    THEN CHOOSE result \in
             {IF a1.expiry = <<>>
              THEN IF DOMAIN a1.index = {} THEN a1
                   ELSE CHOOSE rotated \in {purge_loop(a2, time) :
                                               a2 \in {rotate_lists(a1)}} : TRUE
              ELSE purge_loop(a1, time) : a1 \in {remove_one(a)}} : TRUE
    ELSE a

\* Associations.purge: the caches at which its loop calls remove_one, in the
\* order of the calls
RECURSIVE purge_calls(_, _)
purge_calls(a, time) ==
    IF \/ a.index[a.expiry[1]].orig_expires <= time
       \/ Cardinality(DOMAIN a.index) > MAX_ASSOCS
    THEN LET a1 == remove_one(a)
         IN  <<a>> \o (IF a1.expiry = <<>>
                       THEN IF DOMAIN a1.index = {} THEN <<>>
                            ELSE purge_calls(rotate_lists(a1), time)
                       ELSE purge_calls(a1, time))
    ELSE <<>>

remove_one_calls(a, time) ==
    IF DOMAIN a.index = {} THEN <<>> ELSE purge_calls(a, time)

\* faulty variant: purge leaves the cache as it is
purge_Skip(a, time) == a

\* Associations.purge
purge(a, time) ==
    IF DOMAIN a.index = {} THEN a ELSE purge_loop(a, time)

\* the target and the fqdns Associations.add derives from an artifact
TargetOf(artifact) ==
    RStripDots(Lower(IF artifact.kind = "DNSArtifact"
                     THEN artifact.remote_address ELSE artifact.name))

FqdnsOf(artifact) ==
    [i \in 1..Len(artifact.onames) |-> RStripDots(Lower(artifact.onames[i]))]

\* faulty variant: a new association is appended to both lists
add_purged_BothLists(a, artifact, ttl, time, r) ==
    LET target == TargetOf(artifact)
        fqdns == FqdnsOf(artifact)
    IN  IF target \in DOMAIN a.index
        THEN [a EXCEPT !.index[target] = update(@, fqdns, time, r)]
        ELSE [a EXCEPT !.index = With(a.index, target,
                                      Association(fqdns, ttl, time, r)),
                       !.new_expiry = Append(@, target),
                       !.expiry = Append(@, target)]

\* Associations.add, after its call of purge
add_purged(a, artifact, ttl, time, r) ==
    LET target == TargetOf(artifact)
        fqdns == FqdnsOf(artifact)
    IN  IF target \in DOMAIN a.index
        THEN [a EXCEPT !.index[target] = update(@, fqdns, time, r)]
        ELSE LET index == With(a.index, target, Association(fqdns, ttl, time, r))
             IN  IF a.new_expiry # <<>>
                 THEN [a EXCEPT !.index = index,
                                !.new_expiry = Append(@, target)]
                 ELSE [a EXCEPT !.index = index,
                                !.expiry = Append(@, target)]

\* Associations.add
add(a, artifact, ttl, time, r) ==
    add_purged(purge(a, time), artifact, ttl, time, r)

\* Associations.get
get(a, k) == IF k \in DOMAIN a.index THEN Some(a.index[k]) ELSE None

-----------------------------------------------------------------------------
(* superpowers/shodohflo.py: Superpower.follow_chains, match_len, query *)

\* The elements of a chain: the address query was called with, which is a
\* str in tests/shodohflo.py and an ipaddress.IPv4Address when Powers.exec
\* calls power.query(self.address), and the str names that follow it.
Str(text) == [obj |-> "str", text |-> text]
IPv4Address(text) == [obj |-> "IPv4Address", text |-> text]

Last(seq) == seq[Len(seq)]

\* association in root: a str equals no IPv4Address object
InRoot(association, root) == \E i \in 1..Len(root) : root[i] = Str(association)

\* root in chains
InChains(root, chains) == \E i \in 1..Len(chains) : chains[i] = root

\* Superpower.follow_chains: the value is the list chains after the call
RECURSIVE follow_chains(_, _, _)
RECURSIVE follow_loop(_, _, _, _, _)
follow_chains(a, root, chains) ==
    LET associations_ == get(a, Last(root).text)
    IN  IF associations_ = None
        THEN IF Len(root) > 1 THEN Append(chains, root) ELSE chains
        ELSE follow_loop(a, root, Value(associations_).fqdns, 1, chains)

\* the for loop of follow_chains at its i-th association
follow_loop(a, root, fqdns, i, chains) ==
    IF i > Len(fqdns) THEN chains
    ELSE IF InRoot(fqdns[i], root) /\ ~InChains(root, chains)
         THEN Append(chains, root)
         ELSE follow_loop(a, root, fqdns, i + 1,
                          follow_chains(a, Append(root, Str(fqdns[i])), chains))

\* the depth of calls at which the interpreter raises RecursionError; 1000
\* frames in CPython, scaled down here to the size of the stores explored
RecursionLimit == 12

\* Superpower.follow_chains as the interpreter runs it, called at this depth:
\* the list chains after the call, or that RecursionError was raised
RECURSIVE follow_chains_at(_, _, _, _)
RECURSIVE follow_loop_at(_, _, _, _, _, _)
follow_chains_at(a, root, chains, depth) ==
    IF depth > RecursionLimit THEN [raises |-> TRUE, chains |-> chains]
    ELSE LET associations_ == get(a, Last(root).text)
         IN  IF associations_ = None
             THEN [raises |-> FALSE,
                   chains |-> IF Len(root) > 1 THEN Append(chains, root)
                              ELSE chains]
             ELSE follow_loop_at(a, root, Value(associations_).fqdns, 1, chains,
                                 depth)

follow_loop_at(a, root, fqdns, i, chains, depth) ==
    IF i > Len(fqdns) THEN [raises |-> FALSE, chains |-> chains]
    ELSE IF InRoot(fqdns[i], root) /\ ~InChains(root, chains)
         THEN [raises |-> FALSE, chains |-> Append(chains, root)]
         ELSE LET called == follow_chains_at(a, Append(root, Str(fqdns[i])),
                                             chains, depth + 1)
              IN  IF called.raises THEN called
                  ELSE follow_loop_at(a, root, fqdns, i + 1, called.chains, depth)

Min(a, b) == IF a < b THEN a ELSE b

\* str.split('.')
RECURSIVE Split(_)
Split(s) ==
    IF \A i \in 1..Len(s) : s[i] # Dot THEN <<s>>
    ELSE LET k == CHOOSE i \in 1..Len(s) :
                      s[i] = Dot /\ \A j \in 1..(i - 1) : s[j] # Dot
         IN  <<SubSeq(s, 1, k - 1)>> \o Split(SubSeq(s, k + 1, Len(s)))

\* [ x for x in reversed(seq) ]
Reversed(seq) == [i \in 1..Len(seq) |-> seq[Len(seq) + 1 - i]]

\* the while loop of match_len from index i (counted from 0)
RECURSIVE match_from(_, _, _)
match_from(previous, current, i) ==
    IF i < Min(Len(previous), Len(current)) /\ previous[i + 1] = current[i + 1]
    THEN match_from(previous, current, i + 1)
    ELSE i

\* Superpower.match_len; it raises when chain[-2:] does not unpack into two
\* values and when previous has no split method
match_len(chain) ==
    IF Len(chain) < 2 \/ chain[Len(chain) - 1].obj # "str" \/ Last(chain).obj # "str"
    THEN [raises |-> TRUE, value |-> 0]
    ELSE [raises |-> FALSE,
          value |-> match_from(Reversed(Split(chain[Len(chain) - 1].text)),
                               Reversed(Split(Last(chain).text)), 0)]

\* list(a_set): the elements in some order
ListOf(S) ==
    {l \in [1..Cardinality(S) -> S] : \A i, j \in DOMAIN l : l[i] = l[j] => i = j}

Returned(value) == [raises |-> FALSE, value |-> value]
RaisedIn(call) == [raises |-> TRUE, value |-> Str(<<>>), call |-> call]

SetMax(S) == CHOOSE x \in S : \A y \in S : y <= x
SetMin(S) == CHOOSE x \in S : \A y \in S : x <= y

\* Superpower.query from "Look for the least number of labels": lengths is
\* the DictOfSets of the previous stage as a function, min_match its key
\* (None when the name is unbound).  The members of lengths[min_match] are
\* taken as indices into chains.
least_labels(chains, lengths, min_match) ==
    IF min_match = None THEN {RaisedIn("min_match")}
    ELSE LET candidates == lengths[Value(min_match)]
         IN  IF \E c \in candidates : Last(chains[c]).obj # "str"
             THEN {RaisedIn("len")}
             ELSE LET min_length ==
                          SetMin({Len(Last(chains[c]).text) : c \in candidates})
                  IN  {Returned(Last(chains[c])) :
                          c \in {d \in candidates :
                                    Len(Last(chains[d]).text) = min_length}}

\* Superpower.query from "Look for the one with the least matching labels",
\* for one order of candidates = list(lengths[max_length])
least_matching(chains, candidates, max_length) ==
    IF max_length >= 2
    THEN IF \E i \in DOMAIN candidates : match_len(chains[candidates[i]]).raises
         THEN {RaisedIn("match_len")}
         ELSE LET keys == {match_len(chains[candidates[i]]).value :
                              i \in DOMAIN candidates}
                  lengths == [k \in keys |->
                                 {i \in DOMAIN candidates :
                                     match_len(chains[candidates[i]]).value = k}]
                  min_match == SetMin(keys)
              IN  IF Cardinality(lengths[min_match]) = 1
                  THEN {Returned(Last(chains[candidates[i]])) :
                           i \in lengths[min_match]}
                  ELSE least_labels(chains, lengths, Some(min_match))
    ELSE least_labels(chains,
                      [k \in {Len(chains[i]) : i \in DOMAIN chains} |->
                          {i \in DOMAIN chains : Len(chains[i]) = k}],
                      None)

\* Superpower.query given the chains collected: the values it can return
query_chains(chains) ==
    IF chains = <<>> THEN {Returned(Str(<<>>))}
    ELSE IF Len(chains) = 1 THEN {Returned(Last(chains[1]))}
    ELSE LET max_length == SetMax({Len(chains[i]) : i \in DOMAIN chains})
             longest == {i \in DOMAIN chains : Len(chains[i]) = max_length}
         IN  IF Cardinality(longest) = 1
             THEN {Returned(Last(chains[i])) : i \in longest}
             ELSE UNION {least_matching(chains, candidates, max_length) :
                            candidates \in ListOf(longest)}

\* Superpower.query
Superpower_query(a, address) == query_chains(follow_chains(a, <<address>>, <<>>))

-----------------------------------------------------------------------------
(* Bounds and the inputs drawn within them *)

\* the number of datagrams received, each handled by its own task
MaxReq == 1

\* the number of nets in a configuration of the scope database
MaxNets == 2

Slots == 1..MaxReq

Net(address, prefixlen) ==
    [network_address |-> address, prefixlen |-> prefixlen]

\* the powers of a subnet block: null, empty, one power, two powers
PowerLists ==
    {None, Some(<<>>), Some(<<"sqlite">>), Some(<<"sqlite", "shodohflo">>)}

\* fallback names: '', 'h', 'h.'
Fqdns == {<<>>, <<ChH>>, <<ChH, Dot>>}

\* one subnet block holding the net 10.0.0.0/8
PipelineConfigs ==
    {<<[powers |-> pl,
        nets |-> <<[net |-> Net(<<10, 0, 0, 0>>, 8), mode |-> m, fqdn |-> f]>>]>> :
        pl \in PowerLists, m \in Modes, f \in Fqdns}

\* request datagrams: one that does not parse, a question of type A (1), and
\* PTR questions for 10.0.0.5 (inside the net) and 192.168.1.1 (outside)
Requests ==
    {[wire_ok |-> FALSE, rdtype |-> 0, name |-> <<>>],
     [wire_ok |-> TRUE, rdtype |-> 1, name |-> <<5, 0, 0, 10>>]}
    \cup {[wire_ok |-> TRUE, rdtype |-> PTR, name |-> n] :
             n \in {<<5, 0, 0, 10>>, <<1, 1, 168, 192>>}}

\* what a Superpower.query call can do: raise, return '', 'n' or 'n.'
Outcomes ==
    {[raises |-> TRUE, value |-> <<>>]}
    \cup {[raises |-> FALSE, value |-> v] : v \in {<<>>, <<ChN>>, <<ChN, Dot>>}}

\* one outcome for each power of the Powers object p
Results(p) ==
    [1..(IF p.powers = None THEN 0 ELSE Len(Value(p.powers))) -> Outcomes]

\* what the recursive resolver can answer: NOERROR with data, NXDOMAIN
UpstreamMessages ==
    {[rcode |-> NOERROR, answer |-> <<ChU>>], [rcode |-> NXDOMAIN, answer |-> <<>>]}

-----------------------------------------------------------------------------
(* State *)

NoPowers ==
    [address |-> None, scope |-> None, powers |-> None,
     ready |-> FALSE, response |-> <<>>]

Idle ==
    [pc |-> "idle",
     request |-> [wire_ok |-> FALSE, rdtype |-> 0, name |-> <<>>],
     powers |-> NoPowers,
     phase |-> "", k |-> 0, waiting |-> <<>>,
     stream |-> <<>>, upstream |-> None,
     response_length |-> 0, response |-> <<>>, rcode |-> None,
     sent |-> None, raised |-> "", log |-> <<>>]

\* the shodohflo Superpower before Config.load_powers has constructed it
NoSuperpower ==
    [ttl |-> 0, max_assocs |-> 0, task |-> "", pc |-> "", no_wait |-> FALSE,
     clients |-> <<>>, started_cycle |-> 0, cycles |-> 0, raised |-> ""]

\* SuperUDPListener.__init__ with n datagrams to come
ListenerInit(n) ==
    /\ config = None
    /\ nets_ = None
    /\ tasks = [pw \in RECOGNIZED_POWERS |-> <<>>]
    /\ init_cache = "absent"
    /\ req = [r \in 1..n |-> Idle]
    /\ found = None

\* Associations.__init__
CacheInit ==
    /\ now = 0
    /\ associations = NoAssociations
    /\ asked = None

InitCommon ==
    /\ ListenerInit(MaxReq)
    /\ CacheInit
    /\ superpower = NoSuperpower

Init ==
    /\ yaml \in PipelineConfigs
    /\ InitCommon

-----------------------------------------------------------------------------
(* Actions of the listener *)

\* SuperUDPListener.datagram_received: create_task(handle_request(...))
DatagramReceived(r) ==
    /\ req[r].pc = "idle"
    /\ \A s \in 1..(r - 1) : req[s].pc # "idle"
    /\ \E request \in Requests :
          req' = [req EXCEPT ![r] = [@ EXCEPT !.pc = "start", !.request = request]]
    /\ UNCHANGED <<cacheVars, yaml, config, nets_, tasks, init_cache, found>>

\* handle_request from its first line to its first await (or its end)
HandleRequest(r) ==
    /\ req[r].pc = "start"
    /\ LET q == req[r]
           query == ParseRequest(q.request)
           load == query # None /\ Value(query).rdtype = PTR /\ nets_ = None
           tk == IF load THEN TasksAfterLoad(yaml) ELSE tasks
       IN  /\ config' = Some(yaml)
           /\ nets_' = IF load THEN Some(Nets(yaml)) ELSE nets_
           /\ tasks' = tk
           /\ init_cache' = IF load /\ tk["shodohflo"] # <<>>
                            THEN "pending" ELSE init_cache
           /\ \E p \in {IF query = None THEN NoPowers
                        ELSE PowersInit(Value(nets_'), Value(query))} :
                 \E res \in Results(p) :
                    req' = [req EXCEPT ![r] =
                               IF query = None THEN Raised(q, "from_wire")
                               ELSE ApplyFirst([q EXCEPT !.powers = p], res, tk)]
    /\ UNCHANGED <<cacheVars, yaml, found>>

\* the shodohflo init_cache task ends
InitCacheDone ==
    /\ init_cache = "pending"
    /\ init_cache' = "done"
    /\ UNCHANGED <<cacheVars, yaml, config, nets_, tasks, req, found>>

\* Powers.marshall resumes from asyncio.wait(power.tasks)
MarshallResume(r) ==
    /\ req[r].pc = "marshall"
    /\ init_cache = "done"
    /\ \E res \in Results(req[r].powers) :
          LET q == req[r]
              pw == Value(q.powers.powers)[q.k]
              tk == [tasks EXCEPT ![pw] = <<>>]
          IN  /\ tasks' = tk
              /\ req' = [req EXCEPT ![r] =
                            RunPowers([q EXCEPT !.pc = "running", !.waiting = <<>>],
                                      res, tk, q.k + 1)]
    /\ UNCHANGED <<cacheVars, yaml, config, nets_, init_cache, found>>

\* asyncio.open_connection returns; writer.write(...); await writer.drain()
Connected(r) ==
    /\ req[r].pc = "connect"
    /\ req' = [req EXCEPT ![r] = [@ EXCEPT !.pc = "drain"]]
    /\ UNCHANGED <<cacheVars, yaml, config, nets_, tasks, init_cache, found>>

\* asyncio.open_connection raises
ConnectFailed(r) ==
    /\ req[r].pc = "connect"
    /\ req' = [req EXCEPT ![r] = Raised(@, "open_connection")]
    /\ UNCHANGED <<cacheVars, yaml, config, nets_, tasks, init_cache, found>>

\* writer.drain() returns; the resolver answers; await reader.read(2)
Drained(r) ==
    /\ req[r].pc = "drain"
    /\ \E m \in UpstreamMessages :
          req' = [req EXCEPT ![r] =
                     [@ EXCEPT !.pc = "read_len",
                               !.upstream = Some(to_wire(m)),
                               !.stream = Frame(to_wire(m))]]
    /\ UNCHANGED <<cacheVars, yaml, config, nets_, tasks, init_cache, found>>

\* writer.drain() raises
WriteFailed(r) ==
    /\ req[r].pc = "drain"
    /\ req' = [req EXCEPT ![r] = Raised(@, "drain")]
    /\ UNCHANGED <<cacheVars, yaml, config, nets_, tasks, init_cache, found>>

\* reader.read(2) returns n bytes (none at end of stream); response = b''
ReadLength(r) ==
    /\ req[r].pc = "read_len"
    /\ \E n \in 0..Min(2, Len(req[r].stream)), res \in Results(req[r].powers) :
          LET q == req[r]
              data == SubSeq(q.stream, 1, n)
              q1 == [q EXCEPT !.stream = IF n = 0 THEN <<>>
                                         ELSE SubSeq(q.stream, n + 1, Len(q.stream)),
                              !.response_length = from_bytes(data),
                              !.response = <<>>]
          IN  req' = [req EXCEPT ![r] =
                         IF q1.response_length # 0
                         THEN [q1 EXCEPT !.pc = "read_body"]
                         ELSE AfterExchange(q1, res, tasks)]
    /\ UNCHANGED <<cacheVars, yaml, config, nets_, tasks, init_cache, found>>

\* reader.read(response_length) returns n bytes (none at end of stream)
ReadBody(r) ==
    /\ req[r].pc = "read_body"
    /\ \E n \in 0..Min(req[r].response_length, Len(req[r].stream)),
          res \in Results(req[r].powers) :
          LET q == req[r]
              resp == SubSeq(q.stream, 1, n)
              q1 == [q EXCEPT !.stream = IF n = 0 THEN <<>>
                                         ELSE SubSeq(q.stream, n + 1, Len(q.stream)),
                              !.response = q.response \o resp,
                              !.response_length = q.response_length - n]
          IN  req' = [req EXCEPT ![r] =
                         IF n # 0 /\ q1.response_length # 0
                         THEN q1
                         ELSE AfterExchange(q1, res, tasks)]
    /\ UNCHANGED <<cacheVars, yaml, config, nets_, tasks, init_cache, found>>

\* reader.read raises
ReadFailed(r) ==
    /\ req[r].pc \in {"read_len", "read_body"}
    /\ req' = [req EXCEPT ![r] = Raised(@, "read")]
    /\ UNCHANGED <<cacheVars, yaml, config, nets_, tasks, init_cache, found>>

Next ==
    \/ \E r \in Slots : DatagramReceived(r)
    \/ \E r \in Slots : HandleRequest(r)
    \/ InitCacheDone
    \/ \E r \in Slots : MarshallResume(r)
    \/ \E r \in Slots : Connected(r)
    \/ \E r \in Slots : ConnectFailed(r)
    \/ \E r \in Slots : Drained(r)
    \/ \E r \in Slots : WriteFailed(r)
    \/ \E r \in Slots : ReadLength(r)
    \/ \E r \in Slots : ReadBody(r)
    \/ \E r \in Slots : ReadFailed(r)

Spec == Init /\ [][Next]_vars

-----------------------------------------------------------------------------
(* The listener with several datagrams in flight and a configuration whose  *)
(* powers include shodohflo, the power that posts an init task.             *)

\* the number of datagrams handled concurrently
MaxConc == 2

\* powers sqlite and shodohflo under mode always, shodohflo under mode last
ConcConfigs ==
    {<<[powers |-> Some(c[1]),
        nets |-> <<[net |-> Net(<<10, 0, 0, 0>>, 8), mode |-> c[2], fqdn |-> <<ChH>>]>>]>> :
        c \in {<<<<"sqlite", "shodohflo">>, "always">>, <<<<"shodohflo">>, "last">>}}

InitConc ==
    /\ yaml \in ConcConfigs
    /\ ListenerInit(MaxConc)
    /\ CacheInit
    /\ superpower = NoSuperpower

NextConc ==
    \/ \E r \in 1..MaxConc : DatagramReceived(r)
    \/ \E r \in 1..MaxConc : HandleRequest(r)
    \/ InitCacheDone
    \/ \E r \in 1..MaxConc : MarshallResume(r)
    \/ \E r \in 1..MaxConc : Connected(r)
    \/ \E r \in 1..MaxConc : ConnectFailed(r)
    \/ \E r \in 1..MaxConc : Drained(r)
    \/ \E r \in 1..MaxConc : WriteFailed(r)
    \/ \E r \in 1..MaxConc : ReadLength(r)
    \/ \E r \in 1..MaxConc : ReadBody(r)
    \/ \E r \in 1..MaxConc : ReadFailed(r)

SpecConc == InitConc /\ [][NextConc]_vars

-----------------------------------------------------------------------------
(* The scope database on its own: Config.nets built from a configuration,  *)
(* then config.nets.find(addr) as in the docstring of class Powers.        *)

\* networks to configure: 0.0.0.0/0, 128.0.0.0/1, 10.0.0.0/8, 10.0.0.0/24,
\* 10.0.0.0/32, 192.168.1.0/24
NetPool ==
    {Net(<<0, 0, 0, 0>>, 0), Net(<<128, 0, 0, 0>>, 1), Net(<<10, 0, 0, 0>>, 8),
     Net(<<10, 0, 0, 0>>, 24), Net(<<10, 0, 0, 0>>, 32),
     Net(<<192, 168, 1, 0>>, 24)}

\* subnet blocks of one net each: every net of the pool without powers and
\* without fqdn, and 10.0.0.0/8 and 10.0.0.0/24 with the power sqlite and an
\* fqdn
FindBlocks ==
    {[powers |-> None, nets |-> <<[net |-> n, mode |-> m, fqdn |-> <<>>]>>] :
        n \in NetPool, m \in {"first", "last"}}
    \cup
    {[powers |-> Some(<<"sqlite">>),
      nets |-> <<[net |-> Net(<<10, 0, 0, 0>>, p), mode |-> "always",
                  fqdn |-> <<ChH>>]>>] : p \in {8, 24}}

FindConfigs == UNION {[1..n -> FindBlocks] : n \in 0..MaxNets}

\* addresses to look up: 10.0.0.0, 10.0.0.5, 10.0.5.5, 127.0.0.1,
\* 192.168.1.1, 200.0.0.1
FindAddresses ==
    {<<10, 0, 0, 0>>, <<10, 0, 0, 5>>, <<10, 0, 5, 5>>, <<127, 0, 0, 1>>,
     <<192, 168, 1, 1>>, <<200, 0, 0, 1>>}

InitFind ==
    /\ yaml \in FindConfigs
    /\ InitCommon

\* Config.nets: load_powers() and Nets(self.config['subnets']) on first use
LoadNets ==
    /\ nets_ = None
    /\ nets_' = Some(Nets(yaml))
    /\ tasks' = TasksAfterLoad(yaml)
    /\ UNCHANGED <<cacheVars, yaml, config, init_cache, req, found>>

\* config.nets.find(addr)
FindCall(address) ==
    /\ nets_ # None
    /\ found' = Some([address |-> address, scope |-> find(Value(nets_), address)])
    /\ UNCHANGED <<cacheVars, yaml, config, nets_, tasks, init_cache, req>>

NextFind ==
    \/ LoadNets
    \/ \E address \in FindAddresses : FindCall(address)

SpecFind == InitFind /\ [][NextFind]_vars

-----------------------------------------------------------------------------
(* The shodohflo cache on its own: a Superpower constructed as in           *)
(* tests/shodohflo.py (event_loop None, so that no task is posted), records *)
(* folded in by Associations.add as time passes, and calls of query.        *)

\* the values of params['shodohflo']['ttl'], in ticks of the clock
Ttls == {2}

\* the values of the random part of an expiry, in ticks
Randoms == {0, 1}

\* the clock stops here
MaxTime == 4

\* the address and the names of the records: '1.2.3.4', 'x', 'X', 'x.',
\* 'y.a', 'z.b', 'pp.c', 'qq.d', 'aaaa.c', 'b.c.d'
Names ==
    [ip1234 |-> <<49, 46, 50, 46, 51, 46, 52>>,
     x |-> <<120>>,
     xUpper |-> <<88>>,
     xDot |-> <<120, 46>>,
     ya |-> <<121, 46, 97>>,
     zb |-> <<122, 46, 98>>,
     ppc |-> <<112, 112, 46, 99>>,
     qqd |-> <<113, 113, 46, 100>>,
     aaaac |-> <<97, 97, 97, 97, 46, 99>>,
     bcd |-> <<98, 46, 99, 46, 100>>]

\* redis_data.DNSArtifact and redis_data.CNAMEArtifact as add reads them
DNSArtifact(remote_address, onames) ==
    [kind |-> "DNSArtifact", remote_address |-> remote_address,
     name |-> <<>>, onames |-> onames]

CNAMEArtifact(name, onames) ==
    [kind |-> "CNAMEArtifact", remote_address |-> <<>>,
     name |-> name, onames |-> onames]

\* the records the redis database holds
Artifacts ==
    {DNSArtifact(Names.ip1234, <<Names.x, Names.ya, Names.zb>>),
     DNSArtifact(Names.ip1234, <<Names.aaaac, Names.bcd>>),
     DNSArtifact(Names.ip1234, <<Names.xUpper, Names.xDot>>),
     CNAMEArtifact(Names.ya, <<Names.ppc>>),
     CNAMEArtifact(Names.zb, <<Names.qqd>>),
     CNAMEArtifact(Names.xDot, <<Names.ip1234>>)}

\* the values of params['shodohflo']['max_assocs']: below, at and above the
\* default
MaxAssocsValues == 1..(MAX_ASSOCS + 1)

\* Superpower.__init__
SuperpowerInit(ttl, max_assocs) ==
    [NoSuperpower EXCEPT !.ttl = ttl, !.max_assocs = max_assocs]

InitCache ==
    /\ yaml = <<>>
    /\ ListenerInit(0)
    /\ CacheInit
    /\ superpower \in {SuperpowerInit(ttl, m) : ttl \in Ttls, m \in MaxAssocsValues}

\* a tick of the clock
Tick ==
    /\ now < MaxTime
    /\ now' = now + 1
    /\ UNCHANGED <<yaml, config, nets_, tasks, init_cache, req, found,
                   associations, superpower, asked>>

\* self.associations.add(rec, self.ttl)
AddRecord(rec, r) ==
    /\ associations' = add(associations, rec, superpower.ttl, now, r)
    /\ UNCHANGED <<yaml, config, nets_, tasks, init_cache, req, found,
                   now, superpower, asked>>

\* Superpower.query(address)
Query(address) ==
    /\ \E result \in Superpower_query(associations, address) :
          asked' = Some([address |-> address,
                         chains |-> follow_chains(associations, <<address>>, <<>>),
                         result |-> result])
    /\ UNCHANGED <<yaml, config, nets_, tasks, init_cache, req, found,
                   now, associations, superpower>>

\* the cache as time passes: records of three targets are added and added
\* again
StoreArtifacts ==
    {DNSArtifact(Names.ip1234, <<Names.x>>),
     CNAMEArtifact(Names.ya, <<Names.ppc>>),
     CNAMEArtifact(Names.zb, <<Names.qqd>>)}

NextStore ==
    \/ Tick
    \/ \E rec \in StoreArtifacts, r \in Randoms : AddRecord(rec, r)

SpecStore == InitCache /\ [][NextStore]_vars

\* self.associations.add(rec, self.ttl) for a record whose target is not in
\* the index once purge has run: the add creates an association
AddNew(rec, r) ==
    /\ TargetOf(rec) \notin DOMAIN purge(associations, now).index
    /\ AddRecord(rec, r)

\* the cache when no record comes twice while it is cached: no association
\* is ever updated
NextFresh ==
    \/ Tick
    \/ \E rec \in StoreArtifacts, r \in Randoms : AddNew(rec, r)

SpecFresh == InitCache /\ [][NextFresh]_vars

\* the time allowed after its expiry for an association to leave the index:
\* the entries before it on the list expiry may be due later by a ttl and by
\* the random part of an expiry, and an association that was updated goes
\* through new_expiry once
Slack == 3

\* the clock of the cache that is watched until associations leave it
LiveTime == MaxTime + Slack

\* the cache with the default max_assocs, as time passes
InitLive ==
    /\ yaml = <<>>
    /\ ListenerInit(0)
    /\ CacheInit
    /\ superpower \in {SuperpowerInit(ttl, MAX_ASSOCS) : ttl \in Ttls}

\* time() returns a later value, up to LiveTime
TickLive ==
    /\ now < LiveTime
    /\ now' = now + 1
    /\ UNCHANGED <<yaml, config, nets_, tasks, init_cache, req, found,
                   associations, superpower, asked>>

\* the records that get_dns_data returns again and again
LiveArtifacts ==
    {DNSArtifact(Names.ip1234, <<Names.x>>),
     CNAMEArtifact(Names.ya, <<Names.ppc>>)}

\* refresh_cache calls add for some record
AddSome == \E rec \in LiveArtifacts, r \in Randoms : AddRecord(rec, r)

NextLive ==
    \/ TickLive
    \/ AddSome

\* time advances and add keeps being called
SpecLive ==
    InitLive /\ [][NextLive]_vars /\ WF_vars(TickLive) /\ WF_vars(AddSome)

\* the cache as query sees it: records are added, then query is called with
\* the address as a str and as an IPv4Address
NextQuery ==
    \/ \E rec \in Artifacts : AddRecord(rec, 0)
    \/ \E address \in {Str(Names.ip1234), IPv4Address(Names.ip1234)} : Query(address)

SpecQuery == InitCache /\ [][NextQuery]_vars

\* records whose names refer to each other: '1.2.3.4' to x, and to x twice
\* ('x', 'X'); x to y.a, to itself, and to itself twice ('x', 'x.'); y.a to x,
\* and to x twice
WalkArtifacts ==
    {DNSArtifact(Names.ip1234, <<Names.x>>),
     DNSArtifact(Names.ip1234, <<Names.x, Names.xUpper>>),
     CNAMEArtifact(Names.x, <<Names.ya>>),
     CNAMEArtifact(Names.x, <<Names.x>>),
     CNAMEArtifact(Names.x, <<Names.x, Names.xDot>>),
     CNAMEArtifact(Names.ya, <<Names.x>>),
     CNAMEArtifact(Names.ya, <<Names.x, Names.xDot>>)}

\* chains = []; self.follow_chains([address], chains), the first lines of
\* Superpower.query
Walk(address) ==
    /\ asked' = Some([address |-> address,
                      walk |-> follow_chains_at(associations, <<address>>, <<>>, 1)])
    /\ UNCHANGED <<yaml, config, nets_, tasks, init_cache, req, found,
                   now, associations, superpower>>

\* the cache with records that form loops, and the walk query starts with
NextWalk ==
    \/ \E rec \in WalkArtifacts : AddRecord(rec, 0)
    \/ \E address \in {Str(Names.ip1234), IPv4Address(Names.ip1234)} : Walk(address)

SpecWalk == InitCache /\ [][NextWalk]_vars

-----------------------------------------------------------------------------
(* The shodohflo task on its own: Superpower.__init__ posts init_cache,     *)
(* which fills the cache and creates periodic_refresh.  One action per      *)
(* await of init_cache, refresh_cache and periodic_refresh.                 *)

CYCLE_DELAY == 10
CLIENT_DELAY == 1

\* the number of refresh cycles periodic_refresh starts
MaxCycles == 2

\* what get_all_clients can return: no client, '10.0.0.5', and '10.0.0.5'
\* with '10.0.0.6'
ClientLists ==
    {<<>>,
     <<<<49, 48, 46, 48, 46, 48, 46, 53>>>>,
     <<<<49, 48, 46, 48, 46, 48, 46, 53>>, <<49, 48, 46, 48, 46, 48, 46, 54>>>>}

\* what get_dns_data can return for a client
RecordLists == {<<>>} \cup {<<rec>> : rec \in StoreArtifacts}

InitRefresh ==
    /\ yaml = <<>>
    /\ config = None
    /\ nets_ = None
    /\ tasks = [pw \in RECOGNIZED_POWERS |->
                   IF pw = "shodohflo" THEN <<"init_cache">> ELSE <<>>]
    /\ init_cache = "pending"
    /\ req = [r \in {} |-> Idle]
    /\ found = None
    /\ CacheInit
    /\ superpower \in {[SuperpowerInit(ttl, m) EXCEPT !.task = "init_cache",
                                                      !.pc = "create_redis_pool"] :
                          ttl \in Ttls, m \in MaxAssocsValues}

\* an exception leaves the coroutine of the task: the task is done
TaskRaised(sp, call) == [sp EXCEPT !.pc = "ended", !.raised = call]

\* the state of init_cache once the task sp has taken a step
InitCacheAfter(sp) ==
    IF superpower.task = "init_cache"
       /\ (sp.task # "init_cache" \/ sp.pc = "ended")
    THEN "done" ELSE init_cache

\* refresh_cache has returned to periodic_refresh: the top of "while True"
LoopTop(sp, time) ==
    IF time - sp.started_cycle < CYCLE_DELAY
    THEN [sp EXCEPT !.pc = "sleep_cycle"]
    ELSE [sp EXCEPT !.started_cycle = time, !.no_wait = FALSE,
                    !.pc = "get_all_clients"]

\* refresh_cache at the head of "for client in clients"
NextClient(sp, time) ==
    IF sp.clients = <<>>
    THEN IF sp.task = "init_cache"
         THEN [sp EXCEPT !.task = "periodic_refresh", !.pc = "start"]
         ELSE LoopTop(sp, time)
    ELSE IF sp.no_wait THEN [sp EXCEPT !.pc = "get_dns_data"]
         ELSE [sp EXCEPT !.pc = "sleep_client"]

\* faulty variant: the first record is entered in the index and the loop is
\* left before the association is on a list
add_all_Torn(a, records, ttl, time, r) ==
    IF records = <<>> THEN a
    ELSE LET purged == purge(a, time)
         IN  [purged EXCEPT !.index =
                 With(purged.index, TargetOf(Head(records)),
                      Association(FqdnsOf(Head(records)), ttl, time, r))]

\* for rec in records: self.associations.add(rec, self.ttl)
RECURSIVE add_all(_, _, _, _, _)
add_all(a, records, ttl, time, r) ==
    IF records = <<>> THEN a
    ELSE add_all(add(a, Head(records), ttl, time, r), Tail(records), ttl, time, r)

RefreshStep(sp) ==
    /\ superpower' = sp
    /\ init_cache' = InitCacheAfter(sp)
    /\ UNCHANGED <<yaml, config, nets_, tasks, req, found, asked>>

\* aioredis.create_redis_pool returns; refresh_cache(no_wait=True) awaits
\* get_all_clients
RedisPoolCreated ==
    /\ superpower.pc = "create_redis_pool"
    /\ RefreshStep([superpower EXCEPT !.no_wait = TRUE, !.pc = "get_all_clients"])
    /\ UNCHANGED <<now, associations>>

\* aioredis.create_redis_pool raises
RedisPoolFailed ==
    /\ superpower.pc = "create_redis_pool"
    /\ RefreshStep(TaskRaised(superpower, "create_redis_pool"))
    /\ UNCHANGED <<now, associations>>

\* get_all_clients returns
ClientsFetched(clients) ==
    /\ superpower.pc = "get_all_clients"
    /\ RefreshStep(NextClient([superpower EXCEPT !.clients = clients], now))
    /\ UNCHANGED <<now, associations>>

\* get_all_clients raises
ClientsFailed ==
    /\ superpower.pc = "get_all_clients"
    /\ RefreshStep(TaskRaised(superpower, "get_all_clients"))
    /\ UNCHANGED <<now, associations>>

\* asyncio.sleep(CLIENT_DELAY) returns
ClientSlept ==
    /\ superpower.pc = "sleep_client"
    /\ now' = now + CLIENT_DELAY
    /\ RefreshStep([superpower EXCEPT !.pc = "get_dns_data"])
    /\ UNCHANGED associations

\* get_dns_data returns: its records are added, then the next client
DnsDataFetched(records, r) ==
    /\ superpower.pc = "get_dns_data"
    /\ associations' = add_all(associations, records, superpower.ttl, now, r)
    /\ RefreshStep(NextClient([superpower EXCEPT !.clients = Tail(@)], now))
    /\ UNCHANGED now

\* get_dns_data raises
DnsDataFailed ==
    /\ superpower.pc = "get_dns_data"
    /\ RefreshStep(TaskRaised(superpower, "get_dns_data"))
    /\ UNCHANGED <<now, associations>>

\* the task periodic_refresh runs for the first time
PeriodicStarted ==
    /\ superpower.pc = "start"
    /\ RefreshStep(LoopTop([superpower EXCEPT !.started_cycle = now], now))
    /\ UNCHANGED <<now, associations>>

\* asyncio.sleep(CYCLE_DELAY - (now - started_cycle) + 1) returns and the
\* next cycle starts
CycleSlept ==
    /\ superpower.pc = "sleep_cycle"
    /\ superpower.cycles < MaxCycles
    /\ now' = now + (CYCLE_DELAY - (now - superpower.started_cycle) + 1)
    /\ RefreshStep([superpower EXCEPT !.started_cycle = now', !.no_wait = FALSE,
                                      !.cycles = @ + 1,
                                      !.pc = "get_all_clients"])
    /\ UNCHANGED associations

NextRefresh ==
    \/ RedisPoolCreated
    \/ RedisPoolFailed
    \/ \E clients \in ClientLists : ClientsFetched(clients)
    \/ ClientsFailed
    \/ ClientSlept
    \/ \E records \in RecordLists, r \in Randoms : DnsDataFetched(records, r)
    \/ DnsDataFailed
    \/ PeriodicStarted
    \/ CycleSlept

SpecRefresh == InitRefresh /\ [][NextRefresh]_vars

\* Powers.exec calls query of the shodohflo power once marshall has seen its
\* init task done; the address is an IPv4Address
PipelineQuery ==
    /\ init_cache = "done"
    /\ Query(IPv4Address(Names.ip1234))

\* the task of the power and the queries of the pipeline on one event loop
NextShared ==
    \/ NextRefresh
    \/ PipelineQuery

SpecShared == InitRefresh /\ [][NextShared]_vars

-----------------------------------------------------------------------------
(* The reverse name of a PTR question on its own: Powers.__init__ turns the *)
(* name of the question into an address.  A name is the tuple of its        *)
(* labels as they came on the wire, the empty root label last.              *)

\* '.'.join(parts)
RECURSIVE Join(_)
Join(parts) ==
    IF Len(parts) = 0 THEN <<>>
    ELSE IF Len(parts) = 1 THEN parts[1]
    ELSE parts[1] \o <<Dot>> \o Join(Tail(parts))

\* dns.name.Name.to_text(): the labels as received, joined by dots; the root
\* label gives the dot at the end
to_text(name) == Join(name)

\* '.in-addr.arpa.'
InAddrArpa == <<46, 105, 110, 45, 97, 100, 100, 114, 46, 97, 114, 112, 97, 46>>

\* str.replace(old, ''): every occurrence of old, from the left, is removed
RECURSIVE Remove(_, _)
Remove(s, old) ==
    IF Len(s) < Len(old) THEN s
    ELSE IF SubSeq(s, 1, Len(old)) = old
         THEN Remove(SubSeq(s, Len(old) + 1, Len(s)), old)
         ELSE <<s[1]>> \o Remove(Tail(s), old)

\* int(s) of a string of decimal digits
RECURSIVE DecimalValue(_)
DecimalValue(s) ==
    IF s = <<>> THEN 0
    ELSE 10 * DecimalValue(SubSeq(s, 1, Len(s) - 1)) + (s[Len(s)] - 48)

\* an octet as ipaddress accepts it: one to three decimal digits, no leading
\* zero, at most 255
IsOctet(s) ==
    /\ Len(s) \in 1..3
    /\ \A i \in 1..Len(s) : s[i] \in 48..57
    /\ Len(s) > 1 => s[1] # 48
    /\ DecimalValue(s) <= 255

\* ipaddress.ip_address(text): the four limbs of an IPv4 address, None when
\* it raises ValueError (a text with letters other than hex digits or
\* without colons is no IPv6 address either)
ip_address(text) ==
    LET parts == Split(text)
    IN  IF Len(parts) = 4 /\ \A i \in 1..4 : IsOctet(parts[i])
        THEN Some([i \in 1..4 |-> DecimalValue(parts[i])])
        ELSE None

\* Powers.__init__: ip_address('.'.join(reversed(
\*     name.to_text().replace('.in-addr.arpa.','').split('.'))))
address_of(name) ==
    ip_address(Join(Reversed(Split(Remove(to_text(name), InAddrArpa)))))

\* texts of the octets 0, 1, 10 and 255
OctetTexts == {<<48>>, <<49>>, <<49, 48>>, <<50, 53, 53>>}

\* the labels in-addr and arpa as a client can send them: 'in-addr' 'arpa',
\* 'IN-ADDR' 'ARPA', 'In-Addr' 'Arpa'
ArpaLabels ==
    {<<<<105, 110, 45, 97, 100, 100, 114>>, <<97, 114, 112, 97>>>>,
     <<<<73, 78, 45, 65, 68, 68, 82>>, <<65, 82, 80, 65>>>>,
     <<<<73, 110, 45, 65, 100, 100, 114>>, <<65, 114, 112, 97>>>>}

\* the names d.c.b.a.in-addr.arpa. of PTR questions
QNames ==
    {<<o[1], o[2], o[3], o[4], l[1], l[2], <<>>>> :
        o \in [1..4 -> OctetTexts], l \in ArpaLabels}

InitName ==
    /\ yaml = <<>>
    /\ InitCommon

\* Powers.__init__ on a PTR question with this name
DecodeName(name) ==
    /\ found = None
    /\ found' = Some([name |-> name, address |-> address_of(name)])
    /\ UNCHANGED <<cacheVars, yaml, config, nets_, tasks, init_cache, req>>

NextName == \E name \in QNames : DecodeName(name)

SpecName == InitName /\ [][NextName]_vars

-----------------------------------------------------------------------------
(* The upstream exchange on its own: the framed response arrives in pieces  *)
(* and handle_request reads it with reader.read(2) and the loop of          *)
(* reader.read(response_length).  A read returns what has arrived, at most  *)
(* the number of bytes asked for.                                           *)

\* the pieces of a stream cut after the bytes numbered in cuts
RECURSIVE Pieces(_, _, _)
Pieces(stream, cuts, from) ==
    IF \A c \in cuts : c < from THEN <<SubSeq(stream, from, Len(stream))>>
    ELSE LET c == CHOOSE x \in cuts : x >= from /\ \A y \in cuts : y >= from => x <= y
         IN  <<SubSeq(stream, from, c)>> \o Pieces(stream, cuts, c + 1)

\* every way a stream is split into non-empty pieces
Splits(stream) ==
    {Pieces(stream, cuts, 1) : cuts \in SUBSET (1..(Len(stream) - 1))}

\* reader.read(n) on the pieces still to come: the data returned (b'' at
\* the end of the stream) and the pieces left
read(pieces, n) ==
    IF pieces = <<>> THEN [data |-> <<>>, pieces |-> <<>>]
    ELSE IF n >= Len(pieces[1])
         THEN [data |-> pieces[1], pieces |-> Tail(pieces)]
         ELSE [data |-> SubSeq(pieces[1], 1, n),
               pieces |-> <<SubSeq(pieces[1], n + 1, Len(pieces[1]))>>
                              \o Tail(pieces)]

\* the while loop of handle_request: the value is response
RECURSIVE read_response(_, _, _)
read_response(pieces, response_length, response) ==
    IF response_length = 0 THEN response
    ELSE LET resp == read(pieces, response_length)
         IN  IF Len(resp.data) = 0 THEN response
             ELSE read_response(resp.pieces, response_length - Len(resp.data),
                                response \o resp.data)

\* handle_request from reader.read(2) to writer.close()
read_framed(pieces) ==
    LET prefix == read(pieces, 2)
    IN  read_response(prefix.pieces, from_bytes(prefix.data), <<>>)

\* the longest answer of an upstream response
MaxAnswer == 3

\* upstream responses with answers of 0..MaxAnswer bytes
FramedMessages ==
    {[rcode |-> rc, answer |-> [i \in 1..n |-> ChU]] :
        rc \in {NOERROR, NXDOMAIN}, n \in 0..MaxAnswer}

InitRead ==
    /\ yaml = <<>>
    /\ InitCommon

\* the resolver's response arrives in these pieces and is read
Exchange(m, pieces) ==
    /\ found = None
    /\ found' = Some([upstream |-> to_wire(m), pieces |-> pieces,
                      response |-> read_framed(pieces)])
    /\ UNCHANGED <<cacheVars, yaml, config, nets_, tasks, init_cache, req>>

NextRead ==
    \E m \in FramedMessages :
        \E pieces \in Splits(Frame(to_wire(m))) : Exchange(m, pieces)

SpecRead == InitRead /\ [][NextRead]_vars

-----------------------------------------------------------------------------
(* What the claims speak of *)

\* bit n of an address, n = 1 the most significant
AddressBit(address, n) == Bit(address[(n - 1) \div 8 + 1], 7 - ((n - 1) % 8))

\* the network net contains the address: they agree on the first prefixlen bits
Contains(net, address) ==
    \A n \in 1..net.prefixlen :
        AddressBit(address, n) = AddressBit(net.network_address, n)

\* The Scope the configuration gives an address: among the configured nets
\* that contain it, the one with the longest prefix, as defined last.
LongestPrefixScope(subnets, address) ==
    LET entries == Flatten(subnets)
        containing == {i \in 1..Len(entries) :
                          Contains(entries[i].subnet.net, address)}
    IN  IF containing = {} THEN None
        ELSE LET i == CHOOSE c \in containing :
                          \A d \in containing :
                             \/ entries[d].subnet.net.prefixlen
                                   < entries[c].subnet.net.prefixlen
                             \/ /\ entries[d].subnet.net.prefixlen
                                      = entries[c].subnet.net.prefixlen
                                /\ d <= c
             IN  Some(Scope(entries[i].powers, entries[i].subnet.net.prefixlen,
                            entries[i].subnet.mode, entries[i].subnet.fqdn))

\* C3: for every address and every configuration of networks with prefix
\* lengths 0..32, Nets.find returns the Scope of the configured network with
\* the longest prefix that contains the address, and None exactly when no
\* configured network contains it.
C3_FindLongestPrefix ==
    found # None =>
        Value(found).scope = LongestPrefixScope(yaml, Value(found).address)


\* the request of slot r is a PTR question whose address resolved to a Scope
Resolved(q) ==
    /\ q.pc \notin {"idle", "start"}
    /\ q.request.wire_ok
    /\ q.request.rdtype = PTR
    /\ q.powers.scope # None

ScopeOf(q) == Value(q.powers.scope)

\* the Scope was configured with at least one Power
HasPowers(scope) == scope.powers # None /\ Value(scope.powers) # <<>>

\* the positions in the log of the events of one kind
Events(q, kind) == {i \in 1..Len(q.log) : q.log[i].e = kind}

\* every Power of the Scope was queried, in order, and returned nothing
AllEmpty(q) ==
    LET powers == Value(ScopeOf(q).powers)
        queries == Events(q, "query")
    IN  /\ Cardinality(queries) = Len(powers)
        /\ \A i \in queries : q.log[i].result = "empty"

\* the scope's fallback name as a PTR target: one dot at the end
WithDot(fqdn) == IF EndsWithDot(fqdn) THEN fqdn ELSE fqdn \o <<Dot>>

\* C1: a PTR query whose address resolves to a Scope with mode 'always'
\* never opens an upstream connection, whether or not the Scope has Powers.
C1_AlwaysNeverForwards ==
    \A r \in Slots :
        Resolved(req[r]) /\ ScopeOf(req[r]).mode = "always"
            => Events(req[r], "connect") = {}

\* C2: for a Scope without Powers (empty list or null) and a non-empty
\* fallback fqdn under mode 'last', when the upstream answers with a non-zero
\* RCODE the response sent is a synthesized PTR answer carrying the fallback.
C2_NoPowersFallback ==
    \A r \in Slots :
        /\ Resolved(req[r])
        /\ ~HasPowers(ScopeOf(req[r]))
        /\ StripDots(ScopeOf(req[r]).fqdn) # <<>>
        /\ ScopeOf(req[r]).mode = "last"
        /\ req[r].rcode # None
        /\ Value(req[r].rcode) # NOERROR
        /\ req[r].pc = "done"
        => /\ req[r].sent # None
           /\ Value(req[r].sent).wire = PtrResponse(WithDot(ScopeOf(req[r]).fqdn))

\* C4: for a query whose Scope has mode 'never', no Power.query is ever
\* invoked, whatever the upstream returns.
C4_NeverNoQuery ==
    \A r \in Slots :
        Resolved(req[r]) /\ ScopeOf(req[r]).mode = "never"
            => Events(req[r], "query") = {}

C4_Witness ==
    \E r \in Slots :
        /\ Resolved(req[r])
        /\ ScopeOf(req[r]).mode = "never"
        /\ HasPowers(ScopeOf(req[r]))
        /\ req[r].pc = "done"
        /\ req[r].rcode = Some(NXDOMAIN)

\* C5: under mode 'first' the Powers are queried before any upstream
\* connection is opened if and only if the Scope has a non-empty Powers list,
\* and the upstream is contacted only after every Power returned empty.
C5_FirstPowersBeforeUpstream ==
    \A r \in Slots :
        Resolved(req[r]) /\ ScopeOf(req[r]).mode = "first" =>
            LET q == req[r]
                powers == Value(ScopeOf(q).powers)
            IN  IF HasPowers(ScopeOf(q))
                THEN /\ q.log # <<>> => q.log[1].e = "query"
                     /\ \A i \in Events(q, "connect") :
                           /\ i = Len(powers) + 1
                           /\ \A j \in 1..Len(powers) :
                                 q.log[j] = [e |-> "query", power |-> powers[j],
                                             result |-> "empty"]
                ELSE Events(q, "query") = {}

C5_Witness ==
    \E r \in Slots :
        /\ Resolved(req[r])
        /\ ScopeOf(req[r]).mode = "first"
        /\ HasPowers(ScopeOf(req[r]))
        /\ Len(Value(ScopeOf(req[r]).powers)) = 2
        /\ Events(req[r], "connect") # {}
        /\ req[r].pc = "done"

\* C6: under mode 'last' a Power.query is invoked only after the upstream
\* exchange has completed and only if the upstream RCODE was non-zero; when
\* the upstream RCODE is 0 no Power is queried.
C6_LastPowersAfterUpstreamError ==
    \A r \in Slots :
        Resolved(req[r]) /\ ScopeOf(req[r]).mode = "last" =>
            LET q == req[r]
            IN  \A i \in Events(q, "query") :
                   /\ \E j \in Events(q, "exchanged") : j < i
                   /\ q.rcode # None
                   /\ Value(q.rcode) # NOERROR

C6_Witness ==
    \E r \in Slots :
        /\ Resolved(req[r])
        /\ ScopeOf(req[r]).mode = "last"
        /\ req[r].rcode = Some(NXDOMAIN)
        /\ Events(req[r], "query") # {}
        /\ req[r].pc = "done"

\* the request is not applicable: not PTR, no Scope, or a Scope without Powers
NotApplicable(q) ==
    \/ q.request.rdtype # PTR
    \/ q.powers.scope = None
    \/ ~HasPowers(ScopeOf(q))

C8_FallbackOrNxdomain ==
    \A r \in Slots :
        LET q == req[r]
        IN  /\ Resolved(q)
            /\ HasPowers(ScopeOf(q))
            /\ AllEmpty(q)
            /\ \/ ScopeOf(q).mode = "always"
               \/ /\ ScopeOf(q).mode \in {"first", "last"}
                  /\ q.rcode # None
                  /\ Value(q.rcode) # NOERROR
            => q.sent =
                  IF StripDots(ScopeOf(q).fqdn) # <<>>
                  THEN Some([wire |-> PtrResponse(WithDot(ScopeOf(q).fqdn)),
                             by |-> "fallback"])
                  ELSE Some([wire |-> to_wire([rcode |-> 3, answer |-> <<>>]),
                             by |-> "nxdomain"])

C8_Witness ==
    \E r \in Slots :
        /\ Resolved(req[r])
        /\ HasPowers(ScopeOf(req[r]))
        /\ AllEmpty(req[r])
        /\ ScopeOf(req[r]).mode = "first"
        /\ req[r].rcode = Some(NXDOMAIN)
        /\ ScopeOf(req[r]).fqdn = <<ChH>>
        /\ req[r].sent # None

\* C9: every request that parses as a DNS message gets a response datagram:
\* a failure of the upstream exchange is treated like a non-zero RCODE and
\* the handling goes on to the Powers of mode 'last', the fallback fqdn or
\* NXDOMAIN instead of ending without a reply.  (Stated for the tasks in
\* which no Power raised: those are the subject of C10.)
C9_ParsedRequestGetsReply ==
    \A r \in Slots :
        /\ req[r].request.wire_ok
        /\ req[r].pc \in {"done", "failed"}
        /\ \A i \in Events(req[r], "query") : req[r].log[i].result # "raise"
        => req[r].sent # None

\* C10: when a Power's query raises, the error counts as an empty result:
\* the remaining Powers are still queried in order and the handling of the
\* query goes on to a response.
C10_PowerErrorIsEmptyResult ==
    \A r \in Slots :
        LET q == req[r]
        IN  \A i \in Events(q, "query") :
               q.log[i].result = "raise" =>
                  /\ q.raised # "query"
                  /\ \A k \in 1..(Len(Value(q.powers.powers)) - 1) :
                        q.log[i].power = Value(q.powers.powers)[k] =>
                           /\ i < Len(q.log)
                           /\ q.log[i + 1].e = "query"
                           /\ q.log[i + 1].power = Value(q.powers.powers)[k + 1]

-----------------------------------------------------------------------------
(* What the claims about the shodohflo power speak of *)

\* the chains of maximum length among those collected
Longest(chains) ==
    {i \in DOMAIN chains : \A j \in DOMAIN chains : Len(chains[j]) <= Len(chains[i])}

\* the number of equal labels, from the TLD inward, of the last two names
MatchLabels(chain) ==
    match_from(Reversed(Split(chain[Len(chain) - 1].text)),
               Reversed(Split(Last(chain).text)), 0)

\* the chains of maximum length whose match_len is minimal among them
LeastMatching(chains) ==
    {i \in Longest(chains) :
        \A j \in Longest(chains) : MatchLabels(chains[i]) <= MatchLabels(chains[j])}

\* the number of DNS labels of a name
LabelCount(name) == Len(Split(name.text))

\* C13: query returns the empty string when no chain is collected from the
\* address, and otherwise the final element of a collected chain of maximum
\* length, whichever stage of the tie-break produces the result.
C13_QueryReturnsEndOfLongest ==
    asked # None =>
        LET chains == Value(asked).chains
            result == Value(asked).result
        IN  IF chains = <<>> THEN result = Returned(Str(<<>>))
            ELSE /\ ~result.raises
                 /\ \E i \in Longest(chains) : result.value = Last(chains[i])

\* C14: when several collected chains share the maximum length, of at least
\* 2, the name query returns is the end of a chain whose match_len is minimal
\* among the chains of maximum length.
C14_LeastMatchingLabels ==
    asked # None =>
        LET chains == Value(asked).chains
            result == Value(asked).result
        IN  /\ ~result.raises
            /\ Cardinality(Longest(chains)) > 1
            /\ \A i \in Longest(chains) : Len(chains[i]) >= 2
            => \E i \in LeastMatching(chains) : result.value = Last(chains[i])

\* C15: when several chains of maximum length tie on the minimal match_len,
\* the name query returns has the fewest DNS labels among the final names of
\* the tied chains.
C15_FewestLabels ==
    asked # None =>
        LET chains == Value(asked).chains
            result == Value(asked).result
        IN  /\ ~result.raises
            /\ \A i \in Longest(chains) : Len(chains[i]) >= 2
            /\ Cardinality(LeastMatching(chains)) > 1
            => \E i \in LeastMatching(chains) :
                  /\ result.value = Last(chains[i])
                  /\ \A j \in LeastMatching(chains) :
                        LabelCount(Last(chains[i])) <= LabelCount(Last(chains[j]))

\* C16: every chain collected by follow_chains is acyclic: no name occurs
\* twice in it, the name that would be revisited is not appended.
C16_ChainsAcyclic ==
    asked # None =>
        \A c \in DOMAIN Value(asked).chains :
            LET chain == Value(asked).chains[c]
            IN  \A i, j \in DOMAIN chain : chain[i] = chain[j] => i = j

\* the head of the expiry list has not expired
HeadUnexpired(a, time) ==
    a.expiry # <<>> /\ a.index[Head(a.expiry)].orig_expires > time

\* C17: after any sequence of add operations, either the index holds at most
\* max_assocs associations or the head of the expiry queues has
\* orig_expires > now.
C17_CacheBound ==
    [][associations' # associations =>
          \/ Cardinality(DOMAIN associations'.index) <= superpower'.max_assocs
          \/ HeadUnexpired(associations', now')]_vars

C17_Witness ==
    /\ now > 0
    /\ Cardinality(DOMAIN associations.index) > superpower.max_assocs
    /\ associations.new_expiry # <<>>
    /\ HeadUnexpired(associations, now)

\* C18: a power configured with max_assocs = M enforces that M: whenever
\* purge returns, the index holds at most M associations, for every
\* configured value of M.
C18_PurgeEnforcesMaxAssocs ==
    Cardinality(DOMAIN purge(associations, now).index) <= superpower.max_assocs

\* C11: once the refresh task has been started it never terminates: a failed
\* fetch of the client list or of a client's DNS artifacts does not end the
\* task, further refresh cycles still run.
C11_RefreshNeverEnds ==
    superpower.task = "periodic_refresh" => superpower.pc # "ended"

\* C12: under every interleaving of concurrently handled queries, no
\* Power.query is invoked before all initialization tasks registered by that
\* Power have completed, also when another query is already awaiting them.
C12_NoQueryBeforeInitDone ==
    \A r \in DOMAIN req :
        \A i \in Events(req[r], "query") :
            req[r].log[i].power = "shodohflo" =>
                init_cache = "done" /\ tasks["shodohflo"] = <<>>

C12_Witness ==
    \E r1, r2 \in DOMAIN req :
        /\ r1 # r2
        /\ \E i \in Events(req[r1], "query") : req[r1].log[i].power = "shodohflo"
        /\ req[r2].pc = "marshall"
        /\ req[r2].waiting # <<>>

\* the slot of an entry of the configuration: its network address and its
\* prefix length
SlotOf(entry) ==
    <<entry.subnet.net.network_address, entry.subnet.net.prefixlen>>

\* the entry that defines a slot last in configuration order
LastDefinition(entries, slot) ==
    CHOOSE k \in 1..Len(entries) :
        /\ SlotOf(entries[k]) = slot
        /\ \A l \in 1..Len(entries) : SlotOf(entries[l]) = slot => l <= k

\* the Scope an entry of the configuration defines
ScopeDefined(entry) ==
    Scope(entry.powers, entry.subnet.net.prefixlen, entry.subnet.mode,
          entry.subnet.fqdn)

\* C19: once the Nets object is built, every Node lists its Scopes by strictly
\* decreasing prefix length (so at most one per prefix length), the Nodes
\* hold exactly the slots the configuration defines, and the Scope in each
\* slot is the one of the last entry that defines the slot, with its mode,
\* fqdn and powers.
C19_LastDefinitionPerSlot ==
    nets_ # None =>
        LET nets == Value(nets_)
            entries == Flatten(yaml)
        IN  /\ \A a \in DOMAIN nets :
                   /\ nets[a].address = a
                   /\ \A i, j \in 1..Len(nets[a].scopes) :
                          i < j => nets[a].scopes[i].scope > nets[a].scopes[j].scope
                   /\ \A i \in 1..Len(nets[a].scopes) :
                          \E k \in 1..Len(entries) :
                              SlotOf(entries[k]) = <<a, nets[a].scopes[i].scope>>
            /\ \A k \in 1..Len(entries) :
                   LET slot == SlotOf(entries[k])
                   IN  /\ slot[1] \in DOMAIN nets
                       /\ \E i \in 1..Len(nets[slot[1]].scopes) :
                              nets[slot[1]].scopes[i] =
                                  ScopeDefined(entries[LastDefinition(entries, slot)])

\* the Nets object is built from a configuration that defines one slot twice,
\* with different modes, fqdns and powers
C19_Witness ==
    /\ nets_ # None
    /\ \E k, l \in 1..Len(Flatten(yaml)) :
           /\ k < l
           /\ SlotOf(Flatten(yaml)[k]) = SlotOf(Flatten(yaml)[l])
           /\ Flatten(yaml)[k].subnet.mode # Flatten(yaml)[l].subnet.mode
           /\ Flatten(yaml)[k].subnet.fqdn # Flatten(yaml)[l].subnet.fqdn
           /\ Flatten(yaml)[k].powers # Flatten(yaml)[l].powers

\* entry i of the log of a request is a Power.query that returned a non-empty
\* name
HitAt(q, i) == i \in Events(q, "query") /\ q.log[i].result = "hit"

\* C20: when a Power returns a non-empty name, the Powers before it were
\* queried in the configured order and returned nothing, the hit is the last
\* thing the request does (no later Power is queried, no upstream connection
\* is opened after it), and the one response sent is the PTR answer that
\* carries the name returned.
C20_HitEndsQuery ==
    \A r \in Slots :
        \A i \in 1..Len(req[r].log) :
            HitAt(req[r], i) =>
                LET q == req[r]
                    powers == Value(ScopeOf(q).powers)
                    first == CHOOSE j \in Events(q, "query") :
                                 \A l \in Events(q, "query") : j <= l
                IN  /\ i = Len(q.log)
                    /\ \A j \in first..i :
                           /\ j - first + 1 \in 1..Len(powers)
                           /\ q.log[j].e = "query"
                           /\ q.log[j].power = powers[j - first + 1]
                           /\ j < i => q.log[j].result = "empty"
                    /\ q.pc = "done"
                    /\ q.powers.response # <<>>
                    /\ q.sent = Some([wire |-> PtrResponse(q.powers.response),
                                      by |-> "power"])

\* under mode 'last' the upstream answered with an error, the first of two
\* Powers returned nothing and the second returned a name
C20_Witness ==
    \E r \in Slots :
        /\ Resolved(req[r])
        /\ HasPowers(ScopeOf(req[r]))
        /\ Len(Value(ScopeOf(req[r]).powers)) = 2
        /\ Events(req[r], "connect") # {}
        /\ Len(req[r].log) = 4
        /\ HitAt(req[r], 4)
        /\ req[r].log[4].power = Value(ScopeOf(req[r]).powers)[2]

\* str(n) of an octet
Decimal(n) ==
    IF n < 10 THEN <<48 + n>>
    ELSE IF n < 100 THEN <<48 + (n \div 10), 48 + (n % 10)>>
    ELSE <<48 + (n \div 100), 48 + ((n \div 10) % 10), 48 + (n % 10)>>

\* the reverse name of the address a.b.c.d: d.c.b.a.in-addr.arpa.
ReverseName(address) ==
    <<Decimal(address[4]), Decimal(address[3]), Decimal(address[2]),
      Decimal(address[1]),
      <<105, 110, 45, 97, 100, 100, 114>>, <<97, 114, 112, 97>>, <<>>>>

\* C21: a PTR name d.c.b.a.in-addr.arpa. in any letter case decodes to the
\* address a.b.c.d, and the reverse name of that address is the name asked,
\* up to letter case.
C21_ReverseNameRoundTrip ==
    found # None =>
        LET name == Value(found).name
            address == Value(found).address
        IN  /\ address # None
            /\ Value(address) = <<DecimalValue(name[4]), DecimalValue(name[3]),
                                  DecimalValue(name[2]), DecimalValue(name[1])>>
            /\ Lower(to_text(ReverseName(Value(address)))) = Lower(to_text(name))

\* C22: every Association of the index has expires >= orig_expires, also
\* after update has drawn a new expiry.
C22_ExpiresNotBeforeOrig ==
    \A t \in DOMAIN associations.index :
        associations.index[t].expires >= associations.index[t].orig_expires

\* the number of times a target occurs in a list
Occurrences(list, t) == Cardinality({i \in 1..Len(list) : list[i] = t})

\* C23: every Association of the index is in exactly one of the lists expiry
\* and new_expiry, exactly once, and every entry of the two lists is in the
\* index.
C23_IndexedOnceInOneList ==
    /\ \A t \in DOMAIN associations.index :
           Occurrences(associations.expiry, t)
               + Occurrences(associations.new_expiry, t) = 1
    /\ \A i \in 1..Len(associations.expiry) :
           associations.expiry[i] \in DOMAIN associations.index
    /\ \A i \in 1..Len(associations.new_expiry) :
           associations.new_expiry[i] \in DOMAIN associations.index

\* an association was refreshed and moved to new_expiry, a new one was
\* appended after it, and the list expiry still holds an association
C23_Witness ==
    /\ Len(associations.new_expiry) >= 2
    /\ associations.expiry # <<>>
    /\ \E t \in DOMAIN associations.index : updated(associations.index[t])

\* C24: the list expiry is sorted by orig_expires, ascending.
C24_ExpirySorted ==
    \A i, j \in 1..Len(associations.expiry) :
        i < j => associations.index[associations.expiry[i]].orig_expires
                    <= associations.index[associations.expiry[j]].orig_expires

\* C25: when no association was updated since it was created, purge leaves
\* no association with orig_expires <= now in the index.
C25_PurgeLeavesNoneExpired ==
    LET purged == purge(associations, now)
    IN  \A t \in DOMAIN purged.index : purged.index[t].orig_expires > now

\* C26: purge deletes an association with expires > now only when the index
\* holds more associations than the configured maximum, and an association
\* updated since it was put on the list expiry is moved to new_expiry, not
\* deleted.
C26_DeleteUnexpiredOnlyOverMaximum ==
    LET calls == remove_one_calls(associations, now)
    IN  \A i \in 1..Len(calls) :
            LET a == calls[i]
                item == Head(a.expiry)
                after == remove_one(a)
            IN  /\ item \notin DOMAIN after.index /\ a.index[item].expires > now
                       => Cardinality(DOMAIN a.index) > superpower.max_assocs
                /\ updated(a.index[item])
                       => /\ item \in DOMAIN after.index
                          /\ after.new_expiry = Append(a.new_expiry, item)

\* C26 for the values of max_assocs up to the default
C26_UpToDefault ==
    superpower.max_assocs <= MAX_ASSOCS => C26_DeleteUnexpiredOnlyOverMaximum

\* C27: however the framed response is split into reads, also inside its
\* two-byte length prefix, the exchange returns exactly the bytes the prefix
\* announces: the response of the resolver.
C27_ReadsAnnouncedBytes ==
    found # None => Value(found).response = Value(found).upstream

\* every association of the index is on one list, once, and the lists hold
\* nothing else
Consistent(a) ==
    /\ \A t \in DOMAIN a.index :
           Occurrences(a.expiry, t) + Occurrences(a.new_expiry, t) = 1
    /\ \A i \in 1..Len(a.expiry) : a.expiry[i] \in DOMAIN a.index
    /\ \A i \in 1..Len(a.new_expiry) : a.new_expiry[i] \in DOMAIN a.index

\* C28: the store has one writer at a time and its mutations are atomic:
\* periodic_refresh runs only when init_cache is done, no query runs while
\* init_cache fills the store, and the store a query can read (the store of
\* any state between two steps of the tasks) is consistent.
C28_OneWriterAtomicAdd ==
    /\ superpower.task = "periodic_refresh" => init_cache = "done"
    /\ superpower.task = "init_cache" /\ superpower.pc # "ended" =>
           init_cache = "pending" /\ asked = None
    /\ Consistent(associations)

\* a query has run and the store holds associations while periodic_refresh
\* is between two clients of a later cycle
C28_Witness ==
    /\ asked # None
    /\ superpower.task = "periodic_refresh"
    /\ superpower.pc \in {"sleep_client", "get_dns_data"}
    /\ superpower.cycles >= 1
    /\ DOMAIN associations.index # {}

\* C29: follow_chains returns, at a bounded depth of calls, for every store
\* and start address, also when the fqdns of the store refer to each other
\* in a cycle, to their own target, or hold a name more than once.
C29_FollowChainsReturns ==
    asked # None => ~Value(asked).walk.raises

\* C29 for the stores in which no list of fqdns holds a name twice
C29_WithoutRepeatedNames ==
    (\A t \in DOMAIN associations.index :
        \A i, j \in 1..Len(associations.index[t].fqdns) :
            i # j => associations.index[t].fqdns[i] # associations.index[t].fqdns[j])
    => \A address \in {Str(Names.ip1234), IPv4Address(Names.ip1234)} :
           ~follow_chains_at(associations, <<address>>, <<>>, 1).raises

\* the association of target t expires while records are still new to the
\* cache, Slack ticks before its clock stops
DueInTime(a, t) == a.index[t].expires + Slack <= LiveTime

\* C30: while time advances and add keeps being called, an association that
\* is not updated again does not stay in the index for ever.  The clock
\* stops at LiveTime and an update at that time gives an expiry after it,
\* so: from some time on the index holds no association that expired Slack
\* ticks before LiveTime.
C30_EventuallyRemoved ==
    <>[](\A t \in DOMAIN associations.index : ~DueInTime(associations, t))

\* an association that is due in time has expired and waits on new_expiry
C30_Witness ==
    \E t \in DOMAIN associations.index :
        /\ DueInTime(associations, t)
        /\ associations.index[t].expires <= now
        /\ \E i \in 1..Len(associations.new_expiry) : associations.new_expiry[i] = t

=============================================================================
